---- MODULE Spec2Model ----
(***************************************************************************)
(* The in-memory rate limiter of src/lib/rate-limit.ts and the POST        *)
(* handler of src/app/api/summarize/route.ts that consults it.             *)
(*                                                                         *)
(* Time is Date.now() in milliseconds.  The clock is sampled at the        *)
(* instants that lie one millisecond before, exactly at and one            *)
(* millisecond after a multiple of WINDOW_MS, so that every comparison of  *)
(* the code (before, at and after an entry's resetAt) is exercised.        *)
(* Strings are sequences of one-character strings.                         *)
(***************************************************************************)
EXTENDS Integers, Sequences, FiniteSets, TLC

VARIABLES
    now,            \* Date.now()
    rateLimitStore, \* the Map<string, RateLimitEntry>: a function on the present keys
    lastCall,       \* the isRateLimited call that made the last step, or NoCall
    lastSweep,      \* the cleanupExpiredEntries run that made the last step, or NoSweep
    calls,          \* per key: isRateLimited calls since the key's resetAt was last set
    solo,           \* per key: the table of a run that receives that key's calls only
    unswept,        \* the table of a run in which the cleanup timer never fires
    admitLog,       \* per watched key: times of its admissions of the last WINDOW_MS
    admitted,       \* per key: calls that returned false since resetAt was last set
    handlers,       \* per request slot: the POST invocation in flight, or idle
    inbound         \* a request's headers and, once derived, its rate-limit key

limiterVars ==
    <<now, rateLimitStore, lastCall, lastSweep, calls, admitted, solo, unswept, admitLog>>
routeVars == <<handlers, inbound>>
vars == <<limiterVars, routeVars>>

----------------------------------------------------------------------------
(* Program constants *)

MAX_REQUESTS == 10
WINDOW_MS == 60 * 1000

(* Bounds of the model *)

\* under SpecLive no call is made for a key whose live count has reached MaxLiveCount
MaxLiveCount == 2
\* header values have at most MaxHeaderLen characters
MaxHeaderLen == 4

\* the clock is sampled in the windows 0 .. MaxWindows
MaxWindows == 2
\* no call is made for a key whose live count has reached MaxCount
MaxCount == 12

\* request slots of the endpoint
Reqs == {"r1", "r2"}

Ips == {<<"1">>, <<"2">>}
Unknown == <<"u", "n", "k", "n", "o", "w", "n">>
Clients == Ips \cup {Unknown}

Instants ==
    {t \in {w * WINDOW_MS + d : w \in 0..MaxWindows, d \in {-1, 0, 1}} : t >= 0}

NoCall == [ip |-> <<>>, kind |-> "none"]
NoSweep == [kind |-> "none"]
EmptyMap == <<>>
NoResponse == [status |-> 0, error |-> ""]
Idle == [pc |-> "idle", clientIp |-> <<>>, limited |-> FALSE, hfOk |-> FALSE,
         events |-> <<>>, resp |-> NoResponse]

NoRequest == [state |-> "none", headers |-> <<>>, key |-> <<>>]

\* the log keeps the last MAX_REQUESTS + 1 admissions
LastAdmissions(s) == IF Len(s) > MAX_REQUESTS + 1 THEN Tail(s) ELSE s

----------------------------------------------------------------------------
(* Map operations *)

MapHas(m, k) == k \in DOMAIN m

MapSet(m, k, v) == [x \in DOMAIN m \cup {k} |-> IF x = k THEN v ELSE m[x]]

MapDelete(m, ks) == [x \in DOMAIN m \ ks |-> m[x]]

----------------------------------------------------------------------------
(* src/lib/rate-limit.ts *)

\* isRateLimited with the limit test written count >= MAX_REQUESTS.
isRateLimited_LimitOffByOne(m, ip, t) ==
    IF ~MapHas(m, ip) \/ t > m[ip].resetAt
    THEN [store |-> MapSet(m, ip, [count |-> 1, resetAt |-> t + WINDOW_MS]),
          ret |-> FALSE]
    ELSE LET entry == [m[ip] EXCEPT !.count = @ + 1]
         IN  [store |-> MapSet(m, ip, entry),
              ret |-> entry.count >= MAX_REQUESTS]

\* isRateLimited starting a window by replacing the whole table.
isRateLimited_FreshTable(m, ip, t) ==
    IF ~MapHas(m, ip) \/ t > m[ip].resetAt
    THEN [store |-> MapSet(EmptyMap, ip, [count |-> 1, resetAt |-> t + WINDOW_MS]),
          ret |-> FALSE]
    ELSE LET entry == [m[ip] EXCEPT !.count = @ + 1]
         IN  [store |-> MapSet(m, ip, entry),
              ret |-> entry.count > MAX_REQUESTS]

\* isRateLimited returning early, without the increment, once over the limit.
isRateLimited_Capped(m, ip, t) ==
    IF ~MapHas(m, ip) \/ t > m[ip].resetAt
    THEN [store |-> MapSet(m, ip, [count |-> 1, resetAt |-> t + WINDOW_MS]),
          ret |-> FALSE]
    ELSE IF m[ip].count >= MAX_REQUESTS
         THEN [store |-> m, ret |-> TRUE]
         ELSE [store |-> MapSet(m, ip, [m[ip] EXCEPT !.count = @ + 1]),
               ret |-> FALSE]

\* isRateLimited incrementing a copy of the entry that is never stored.
isRateLimited_LostWrite(m, ip, t) ==
    IF ~MapHas(m, ip) \/ t > m[ip].resetAt
    THEN [store |-> MapSet(m, ip, [count |-> 1, resetAt |-> t + WINDOW_MS]),
          ret |-> FALSE]
    ELSE LET entry == [m[ip] EXCEPT !.count = @ + 1]
         IN  [store |-> m, ret |-> entry.count > MAX_REQUESTS]

\* isRateLimited pushing resetAt forward on every counted call.
isRateLimited_Sliding(m, ip, t) ==
    IF ~MapHas(m, ip) \/ t > m[ip].resetAt
    THEN [store |-> MapSet(m, ip, [count |-> 1, resetAt |-> t + WINDOW_MS]),
          ret |-> FALSE]
    ELSE LET entry == [count |-> m[ip].count + 1, resetAt |-> t + WINDOW_MS]
         IN  [store |-> MapSet(m, ip, entry),
              ret |-> entry.count > MAX_REQUESTS]

\* isRateLimited(ip) at Date.now() = t on table m: the table it leaves and
\* the boolean it returns.
isRateLimited(m, ip, t) ==
    IF ~MapHas(m, ip) \/ t > m[ip].resetAt
    THEN [store |-> MapSet(m, ip, [count |-> 1, resetAt |-> t + WINDOW_MS]),
          ret |-> FALSE]
    ELSE LET entry == [m[ip] EXCEPT !.count = @ + 1]
         IN  [store |-> MapSet(m, ip, entry),
              ret |-> entry.count > MAX_REQUESTS]

\* cleanupExpiredEntries with the comparison inverted.
cleanupExpiredEntries_Inverted(m, t) ==
    MapDelete(m, {ip \in DOMAIN m : t < m[ip].resetAt})

\* cleanupExpiredEntries deleting at resetAt already, isRateLimited unchanged.
cleanupExpiredEntries_AtResetAt(m, t) ==
    MapDelete(m, {ip \in DOMAIN m : t >= m[ip].resetAt})

\* cleanupExpiredEntries() at Date.now() = t on table m: the table it leaves.
cleanupExpiredEntries(m, t) ==
    MapDelete(m, {ip \in DOMAIN m : t > m[ip].resetAt})

----------------------------------------------------------------------------
(* Steps *)

\* The bookkeeping of one isRateLimited(ip) call at the current time.
RateLimitStep(ip) ==
    LET r == isRateLimited(rateLimitStore, ip, now)
        before == IF MapHas(rateLimitStore, ip)
                  THEN <<rateLimitStore[ip]>> ELSE <<>>
        after == IF MapHas(r.store, ip) THEN <<r.store[ip]>> ELSE <<>>
        started == \/ before = <<>>
                   \/ after = <<>>
                   \/ after[1].resetAt # before[1].resetAt
        nth == IF started THEN 1 ELSE calls[ip] + 1
        rs == isRateLimited(solo[ip], ip, now)
        ru == isRateLimited(unswept, ip, now)
    IN  /\ MapHas(rateLimitStore, ip) /\ now <= rateLimitStore[ip].resetAt
            => rateLimitStore[ip].count < MaxCount
        /\ rateLimitStore' = r.store
        /\ calls' = [calls EXCEPT ![ip] = nth]
        /\ admitted' = [admitted EXCEPT ![ip] =
                            (IF started THEN 0 ELSE @) + (IF r.ret THEN 0 ELSE 1)]
        /\ solo' = [solo EXCEPT ![ip] = rs.store]
        /\ unswept' = ru.store
        /\ lastCall' = [ip |-> ip, kind |-> "call", at |-> now,
                        before |-> before, after |-> after,
                        others |-> MapDelete(r.store, {ip}) = MapDelete(rateLimitStore, {ip}),
                        nth |-> nth, limited |-> r.ret,
                        soloLimited |-> rs.ret, unsweptLimited |-> ru.ret,
                        swept |-> MapHas(unswept, ip) /\ ~MapHas(rateLimitStore, ip)]
        /\ lastSweep' = NoSweep
        /\ admitLog' = [k \in DOMAIN admitLog |->
                            IF k = ip /\ ~r.ret
                            THEN LastAdmissions(Append(admitLog[k], now))
                            ELSE admitLog[k]]

Call(ip) ==
    /\ RateLimitStep(ip)
    /\ UNCHANGED <<now, routeVars>>

\* The setInterval callback.  The timer is armed when the module is loaded and
\* is not synchronised with any key's window, and a timer callback runs at or
\* after its due time, so a run of the callback may fall on any instant.
Cleanup ==
    /\ rateLimitStore' = cleanupExpiredEntries(rateLimitStore, now)
    /\ solo' = [k \in Clients |-> cleanupExpiredEntries(solo[k], now)]
    /\ lastSweep' = [kind |-> "sweep", at |-> now, before |-> rateLimitStore]
    /\ lastCall' = NoCall
    /\ UNCHANGED <<now, calls, admitted, unswept, admitLog, routeVars>>

\* Time passes.
Tick ==
    /\ \E t \in Instants : t > now /\ now' = t
    /\ lastCall' = NoCall
    /\ lastSweep' = NoSweep
    /\ admitLog' = [k \in DOMAIN admitLog |->
                        SelectSeq(admitLog[k], LAMBDA a : a > now' - WINDOW_MS)]
    /\ UNCHANGED <<rateLimitStore, calls, admitted, solo, unswept, routeVars>>

Init ==
    /\ now = 0
    /\ rateLimitStore = EmptyMap
    /\ lastCall = NoCall
    /\ lastSweep = NoSweep
    /\ calls = [k \in Clients |-> 0]
    /\ admitted = [k \in Clients |-> 0]
    /\ solo = [k \in Clients |-> EmptyMap]
    /\ unswept = EmptyMap
    /\ admitLog = EmptyMap
    /\ handlers = [r \in Reqs |-> Idle]
    /\ inbound = NoRequest

Next ==
    \/ \E ip \in Ips : Call(ip)
    \/ Cleanup
    \/ Tick

Spec == Init /\ [][Next]_vars

\* The interval timer fires for the lifetime of the process and the clock
\* advances: the sweep and the passing of time are not postponed forever.
\* The sweep reads resetAt only, so a few calls per window are enough here.
CallLive(ip) ==
    /\ MapHas(rateLimitStore, ip) /\ now <= rateLimitStore[ip].resetAt
            => rateLimitStore[ip].count < MaxLiveCount
    /\ Call(ip)

NextLive ==
    \/ \E ip \in Ips : CallLive(ip)
    \/ Cleanup
    \/ Tick

SpecLive == Init /\ [][NextLive]_vars /\ WF_vars(Cleanup) /\ WF_vars(Tick)

\* One client whose admissions are logged.
Watched == <<"1">>

InitBurst ==
    /\ now = 0
    /\ rateLimitStore = EmptyMap
    /\ lastCall = NoCall
    /\ lastSweep = NoSweep
    /\ calls = [k \in Clients |-> 0]
    /\ admitted = [k \in Clients |-> 0]
    /\ solo = [k \in Clients |-> EmptyMap]
    /\ unswept = EmptyMap
    /\ admitLog = [k \in {Watched} |-> <<>>]
    /\ handlers = [r \in Reqs |-> Idle]
    /\ inbound = NoRequest

NextBurst ==
    \/ Call(Watched)
    \/ Cleanup
    \/ Tick

SpecBurst == InitBurst /\ [][NextBurst]_vars

----------------------------------------------------------------------------
(* src/app/api/summarize/route.ts *)

Whitespace == {" ", "\t"}

\* String.prototype.trim
RECURSIVE TrimStart(_)
TrimStart(s) ==
    IF s # <<>> /\ Head(s) \in Whitespace THEN TrimStart(Tail(s)) ELSE s

RECURSIVE TrimEnd(_)
TrimEnd(s) ==
    IF s # <<>> /\ s[Len(s)] \in Whitespace
    THEN TrimEnd(SubSeq(s, 1, Len(s) - 1)) ELSE s

Trim(s) == TrimEnd(TrimStart(s))

\* s.split(',')[0]
SplitFirst(s) ==
    LET commas == {i \in 1..Len(s) : s[i] = ","}
    IN  IF commas = {} THEN s
        ELSE SubSeq(s, 1, (CHOOSE i \in commas : \A j \in commas : i <= j) - 1)

\* A header is <<>> when absent (headers.get gives null) and <<value>> when present;
\* a string is truthy when it is not empty.
Truthy(h) == h # <<>> /\ h[1] # <<>>

getClientIp(headers) ==
    IF Truthy(headers.xff) THEN Trim(SplitFirst(headers.xff[1]))
    ELSE IF Truthy(headers.realIp) THEN headers.realIp[1]
    ELSE Unknown

\* The headers the requests of the model carry: one client, seen through a
\* bare address, a proxy chain, and an empty forwarded-for with a real-ip.
RequestHeaders ==
    { [xff |-> << <<"1">> >>, realIp |-> <<>>],
      [xff |-> << <<"1", " ", ",", " ", "2">> >>, realIp |-> << <<"2">> >>],
      [xff |-> << <<>> >>, realIp |-> << <<"1">> >>] }

\* The key derivation on its own: header values are the strings of at most
\* MaxHeaderLen characters that headers.get can return (it strips the
\* whitespace at both ends of a value).
HeaderChars == {"1", ",", " "}

StringsUpTo(n) == UNION {[1..m -> HeaderChars] : m \in 0..n}

HeaderValues == {<<>>} \cup {<<v>> : v \in {w \in StringsUpTo(MaxHeaderLen) : Trim(w) = w}}

RealIpValues == {<<>>, << <<>> >>, << <<"2">> >>}

InitClientIp ==
    /\ now = 0
    /\ rateLimitStore = EmptyMap
    /\ lastCall = NoCall
    /\ lastSweep = NoSweep
    /\ calls = [k \in Clients |-> 0]
    /\ admitted = [k \in Clients |-> 0]
    /\ solo = [k \in Clients |-> EmptyMap]
    /\ unswept = EmptyMap
    /\ admitLog = EmptyMap
    /\ handlers = [r \in Reqs |-> Idle]
    /\ inbound \in {[state |-> "received", headers |-> [xff |-> x, realIp |-> y], key |-> <<>>] :
                        x \in HeaderValues, y \in RealIpValues}

\* const clientIp = getClientIp(request)
DeriveKey ==
    /\ inbound.state = "received"
    /\ inbound' = [inbound EXCEPT !.state = "keyed",
                                  !.key = <<getClientIp(inbound.headers)>>]
    /\ UNCHANGED <<limiterVars, handlers>>

NextClientIp == DeriveKey

SpecClientIp == InitClientIp /\ [][NextClientIp]_vars

Bodies == {"valid", "invalid", "unparsable"}
FetchOutcomes == {"ok", "not ok", "rejected"}
Texts == {"summary", "not json", "no summary", "rejected"}

Json(status, error) == [status |-> status, error |-> error]

Finish(h, event, status, error) ==
    [h EXCEPT !.pc = "done", !.events = Append(@, event),
              !.resp = Json(status, error)]

\* POST logging the exceeded limit without returning the 429 response.
PostEnter_NoReturn(r, headers) ==
    LET ip == getClientIp(headers)
        res == isRateLimited(rateLimitStore, ip, now)
        h == [Idle EXCEPT !.clientIp = ip, !.limited = res.ret,
                          !.events = <<"isRateLimited">>]
    IN  /\ handlers[r].pc = "idle"
        /\ RateLimitStep(ip)
        /\ handlers' = [handlers EXCEPT ![r] =
               [h EXCEPT !.pc = "json", !.events = Append(@, "request.json")]]
        /\ UNCHANGED <<now, inbound>>

\* POST up to its first await: getClientIp, isRateLimited, and either the 429
\* response or the call of request.json().
PostEnter(r, headers) ==
    LET ip == getClientIp(headers)
        res == isRateLimited(rateLimitStore, ip, now)
        h == [Idle EXCEPT !.clientIp = ip, !.limited = res.ret,
                          !.events = <<"isRateLimited">>]
    IN  /\ handlers[r].pc = "idle"
        /\ RateLimitStep(ip)
        /\ handlers' = [handlers EXCEPT ![r] =
               IF res.ret
               THEN Finish(h, "respond", 429, "Too many requests. Please try again later.")
               ELSE [h EXCEPT !.pc = "json", !.events = Append(@, "request.json")]]
        /\ UNCHANGED <<now, inbound>>

\* From the settling of request.json() to the next await: validation, the
\* token lookup (hfToken: whether process.env.HF_API_TOKEN is set) and the
\* call of fetch.
PostBody(r, body, hfToken) ==
    LET h == [handlers[r] EXCEPT !.events = Append(@, "validate")]
    IN  /\ handlers[r].pc = "json"
        /\ handlers' = [handlers EXCEPT ![r] =
               IF body # "valid"
               THEN Finish(h, "respond", 400, "abstract is required")
               ELSE IF ~hfToken
               THEN Finish([h EXCEPT !.events = Append(@, "token")],
                           "respond", 500, "Service configuration error")
               ELSE [h EXCEPT !.pc = "fetch",
                              !.events = @ \o <<"token", "fetch">>]]
        /\ lastCall' = NoCall
        /\ lastSweep' = NoSweep
        /\ UNCHANGED <<now, rateLimitStore, calls, admitted, solo, unswept, admitLog, inbound>>

\* From the settling of fetch to the next await: hfResponse.text() is called,
\* or the rejection reaches the catch clause.
PostFetched(r, outcome) ==
    /\ handlers[r].pc = "fetch"
    /\ handlers' = [handlers EXCEPT ![r] =
           IF outcome = "rejected"
           THEN Finish(@, "respond", 500, "Internal server error")
           ELSE [@ EXCEPT !.pc = "text", !.hfOk = (outcome = "ok"),
                          !.events = Append(@, "text")]]
    /\ lastCall' = NoCall
    /\ lastSweep' = NoSweep
    /\ UNCHANGED <<now, rateLimitStore, calls, admitted, solo, unswept, admitLog, inbound>>

\* From the settling of hfResponse.text() to the response.
PostText(r, text) ==
    /\ handlers[r].pc = "text"
    /\ handlers' = [handlers EXCEPT ![r] =
           IF text = "rejected"
           THEN Finish(@, "respond", 500, "Internal server error")
           ELSE IF ~handlers[r].hfOk
           THEN Finish(@, "respond", 500, "Hugging Face API error")
           ELSE IF text = "not json"
           THEN Finish(@, "respond", 500, "Failed to parse Hugging Face response")
           ELSE IF text = "no summary"
           THEN Finish(@, "respond", 500, "Invalid response from summarization service")
           ELSE Finish(@, "respond", 200, "")]
    /\ lastCall' = NoCall
    /\ lastSweep' = NoSweep
    /\ UNCHANGED <<now, rateLimitStore, calls, admitted, solo, unswept, admitLog, inbound>>

\* The response has been sent; the slot takes the next request.
Responded(r) ==
    /\ handlers[r].pc = "done"
    /\ handlers' = [handlers EXCEPT ![r] = Idle]
    /\ lastCall' = NoCall
    /\ lastSweep' = NoSweep
    /\ UNCHANGED <<now, rateLimitStore, calls, admitted, solo, unswept, admitLog, inbound>>

InitRoute ==
    /\ now = 0
    /\ rateLimitStore = EmptyMap
    /\ lastCall = NoCall
    /\ lastSweep = NoSweep
    /\ calls = [k \in Clients |-> 0]
    /\ admitted = [k \in Clients |-> 0]
    /\ solo = [k \in Clients |-> EmptyMap]
    /\ unswept = EmptyMap
    /\ admitLog = EmptyMap
    /\ handlers = [r \in Reqs |-> Idle]
    /\ inbound = NoRequest

NextRoute ==
    \/ \E r \in Reqs, headers \in RequestHeaders : PostEnter(r, headers)
    \/ \E r \in Reqs, body \in Bodies, hfToken \in BOOLEAN : PostBody(r, body, hfToken)
    \/ \E r \in Reqs, outcome \in FetchOutcomes : PostFetched(r, outcome)
    \/ \E r \in Reqs, text \in Texts : PostText(r, text)
    \/ \E r \in Reqs : Responded(r)
    \/ Cleanup
    \/ Tick

SpecRoute == InitRoute /\ [][NextRoute]_vars

----------------------------------------------------------------------------
(* Properties of the rate limiter *)

IsCall == lastCall.kind = "call"
IsSweep == lastSweep.kind = "sweep"

\* C1: a call made inside its key's window (before the entry's resetAt) is
\* not limited when it is one of the first MAX_REQUESTS calls of the window,
\* and is limited when it is call number MAX_REQUESTS + 1 of the window.
C1_WindowQuota ==
    IsCall /\ lastCall.at < lastCall.after[1].resetAt
        => /\ lastCall.nth <= MAX_REQUESTS => ~lastCall.limited
           /\ lastCall.nth = MAX_REQUESTS + 1 => lastCall.limited

C1_Witness ==
    /\ IsCall
    /\ lastCall.at > 0
    /\ lastCall.at < lastCall.after[1].resetAt
    /\ lastCall.nth = MAX_REQUESTS + 1
    /\ lastCall.limited

\* C2: a call for a key with an entry, made at or past the entry's resetAt
\* (now >= resetAt), is not limited and leaves count = 1 and
\* resetAt = now + WINDOW_MS.
C2_ResetAtOrPastWindowEnd ==
    IsCall /\ lastCall.before # <<>> /\ lastCall.at >= lastCall.before[1].resetAt
        => /\ ~lastCall.limited
           /\ lastCall.after = <<[count |-> 1, resetAt |-> lastCall.at + WINDOW_MS]>>

\* C3: a call leaves the entries of the other keys as they were, every key's
\* entry is the one a run with that key's calls alone has, and every result
\* is the result of that run.
C3_KeysIndependent ==
    /\ \A k \in Ips :
          /\ DOMAIN solo[k] \subseteq {k}
          /\ MapHas(rateLimitStore, k) <=> MapHas(solo[k], k)
          /\ MapHas(rateLimitStore, k) => rateLimitStore[k] = solo[k][k]
    /\ IsCall => lastCall.others /\ lastCall.limited = lastCall.soloLimited

C3_Witness ==
    /\ IsCall
    /\ ~lastCall.limited
    /\ lastCall.nth > 1
    /\ \E k \in Ips \ {lastCall.ip} :
          /\ MapHas(rateLimitStore, k)
          /\ rateLimitStore[k].count > MAX_REQUESTS
          /\ now < rateLimitStore[k].resetAt

\* C5: right after a sweep, every entry that was active at the sweep
\* (now < resetAt) is in the table, unchanged.
C5_SweepKeepsActive ==
    IsSweep =>
        \A k \in DOMAIN lastSweep.before :
            lastSweep.at < lastSweep.before[k].resetAt
                => MapHas(rateLimitStore, k) /\ rateLimitStore[k] = lastSweep.before[k]

C5_Witness ==
    /\ IsSweep
    /\ \E k \in DOMAIN lastSweep.before : lastSweep.at < lastSweep.before[k].resetAt
    /\ \E k \in DOMAIN lastSweep.before : ~MapHas(rateLimitStore, k)

\* C6: right after a sweep at time now, the table holds no entry with
\* resetAt <= now.
C6_SweepRemovesAtOrBefore ==
    IsSweep => \A k \in DOMAIN rateLimitStore : ~(rateLimitStore[k].resetAt <= now)

\* C7: at most MAX_REQUESTS calls of a key made inside any interval of
\* length WINDOW_MS are admitted.
C7_SlidingMinuteQuota ==
    \A k \in DOMAIN admitLog : Len(admitLog[k]) <= MAX_REQUESTS

\* C8: the count of every entry is the number of calls made for its key
\* since its resetAt was last set, limited calls included.
C8_CountIsCallsSinceReset ==
    \A k \in DOMAIN rateLimitStore : rateLimitStore[k].count = calls[k]

C8_Witness ==
    /\ IsCall
    /\ lastCall.limited
    /\ lastCall.nth = MAX_REQUESTS + 2
    /\ rateLimitStore[lastCall.ip].count = MAX_REQUESTS + 2

\* C9: every call returns what it returns in the run in which the cleanup
\* never fires.
C9_SweepInvisible ==
    IsCall => lastCall.limited = lastCall.unsweptLimited

C9_Witness ==
    /\ IsCall
    /\ lastCall.swept
    /\ \E k \in DOMAIN unswept : ~MapHas(rateLimitStore, k)

----------------------------------------------------------------------------
(* Properties of the endpoint *)

InFlight(r) == handlers[r].pc \in {"json", "fetch", "text"}

Occurrences(events, e) == Cardinality({i \in 1..Len(events) : events[i] = e})

\* C4: every POST invocation calls isRateLimited once, as its first step,
\* before request.json, validation, the token lookup and fetch; when the call
\* returned true the invocation has answered 429 with the "Too many requests"
\* body and has done nothing else.
C4_LimitedShortCircuits ==
    \A r \in Reqs :
        handlers[r].pc # "idle" =>
            /\ handlers[r].events[1] = "isRateLimited"
            /\ Occurrences(handlers[r].events, "isRateLimited") = 1
            /\ handlers[r].limited =>
                  /\ handlers[r].pc = "done"
                  /\ handlers[r].resp =
                        Json(429, "Too many requests. Please try again later.")
                  /\ handlers[r].events = <<"isRateLimited", "respond">>

C4_Witness ==
    \E r1, r2 \in Reqs :
        /\ handlers[r1].limited
        /\ handlers[r1].resp.status = 429
        /\ handlers[r2].pc = "text"
        /\ Occurrences(handlers[r2].events, "fetch") = 1

\* C10: with invocations interleaved at their awaits and with the sweep, the
\* count of every entry is the number of invocations that called
\* isRateLimited for the key since its resetAt was last set, and at most
\* MAX_REQUESTS of them were admitted.
C10_NoLostUpdate ==
    \A k \in DOMAIN rateLimitStore :
        /\ rateLimitStore[k].count = calls[k]
        /\ admitted[k] <= MAX_REQUESTS
        /\ admitted[k] <= calls[k]

C10_Witness ==
    /\ IsCall
    /\ lastCall.nth = MAX_REQUESTS
    /\ ~lastCall.limited
    /\ \A r \in Reqs : InFlight(r) /\ handlers[r].clientIp = lastCall.ip

\* C11: the key passed to the rate limiter is never the empty string.
C11_KeyNonEmpty ==
    inbound.state = "keyed" => inbound.key[1] # <<>>

LastInstant == MaxWindows * WINDOW_MS + 1

\* k's entry has expired by the test of the code
Expired(k) == MapHas(rateLimitStore, k) /\ now > rateLimitStore[k].resetAt

\* k's entry has a window that ends while the clock still runs
Expiring(k) == MapHas(rateLimitStore, k) /\ rateLimitStore[k].resetAt < LastInstant

\* C12: no expired entry stays in the table forever, and no entry whose
\* window ends while the clock still runs does: a sweep removes it, unless a
\* later call for its key has replaced it by the entry of a new window.
C12_ExpiredEntryReclaimed ==
    \A k \in Ips :
        /\ Expired(k) ~> ~Expired(k)
        /\ Expiring(k) ~> ~Expiring(k)

\* a sweep has removed the expired entry of one key while the other key's
\* entry is live
C12_Witness ==
    /\ IsSweep
    /\ \E k \in DOMAIN lastSweep.before :
          /\ ~MapHas(rateLimitStore, k)
          /\ lastSweep.at > lastSweep.before[k].resetAt
          /\ lastSweep.before[k].count = 1
    /\ \E k \in DOMAIN rateLimitStore : now < rateLimitStore[k].resetAt

\* C13: a call for a key whose entry has not expired leaves resetAt as it
\* was, limited or not; resetAt changes only to now + WINDOW_MS, with
\* count = 1; a limited call is made no later than WINDOW_MS after the start
\* of its window, and a call made after the entry's resetAt is admitted
\* whatever the count was.
C13_FixedWindow ==
    IsCall /\ lastCall.before # <<>> =>
        LET before == lastCall.before[1]
            after == lastCall.after[1]
        IN  /\ lastCall.at <= before.resetAt => after.resetAt = before.resetAt
            /\ after.resetAt # before.resetAt =>
                  after = [count |-> 1, resetAt |-> lastCall.at + WINDOW_MS]
            /\ lastCall.limited =>
                  lastCall.at - (after.resetAt - WINDOW_MS) <= WINDOW_MS
            /\ lastCall.at > before.resetAt => ~lastCall.limited

\* a client over the limit, still in the table, is admitted on its first
\* call after the window's end
C13_Witness ==
    /\ IsCall
    /\ lastCall.before # <<>>
    /\ lastCall.before[1].count > MAX_REQUESTS + 1
    /\ lastCall.at > lastCall.before[1].resetAt
    /\ ~lastCall.limited
    /\ lastCall.after[1].resetAt = lastCall.at + WINDOW_MS

====
